---- MODULE Spec2Model ----
(***************************************************************************)
(* The snake game of src/src/components/SnakeGame.tsx as a state machine.  *)
(*                                                                         *)
(* The component keeps three pieces of React state (gameState, highScore,  *)
(* isPlaying) and one item of localStorage.  Its handlers are closures of  *)
(* a render: the keydown listener, the buttons and the interval callback   *)
(* read isPlaying, gameState.gameOver, gameState.isPaused,                 *)
(* gameState.direction and highScore as they were in the render that       *)
(* created them, while every setGameState(prev => ...) updater reads the   *)
(* true current state.  The variable `rendered` is that captured render.   *)
(* The component imports sonner, which needs React 18: there an update     *)
(* made in a click or keydown handler is rendered and its effects are      *)
(* flushed before the handler's task ends, while an update made in a timer *)
(* callback is rendered, and its effects run, in a later task.  So the     *)
(* click and key actions below end with rendered' = the new state, and the *)
(* interval callback leaves `rendered` behind until Render catches up.     *)
(***************************************************************************)
EXTENDS Integers, Sequences, FiniteSets

VARIABLES
    gameState,   \* useState<GameState>: snake, food, direction, score, gameOver, isPaused
    highScore,   \* useState<number>
    isPlaying,   \* useState<boolean>
    storage,     \* localStorage item 'snakeHighScore': NoItem or a string
    mounted,     \* the mount effect (load of the high score) has run
    rendered,    \* the render whose closures are attached (listener, buttons, interval)
    ev,          \* history: the last operation, its state before and what it did (a key
                 \* that asks for the heading already held, or for none, is not recorded)
    foodCall     \* a call of generateFood followed through its loop: where it is, the
                 \* snake it was given and its local newFood

vars == <<gameState, highScore, isPlaying, storage, mounted, rendered, ev, foodCall>>

(***************************************************************************)
(* Program constants.                                                      *)
(***************************************************************************)
GRID_SIZE == 20

INITIAL_SNAKE == << [x |-> 10, y |-> 10] >>

INITIAL_FOOD == [x |-> 15, y |-> 15]

(***************************************************************************)
(* Bounds of the model.                                                    *)
(***************************************************************************)
\* Longest snake explored: a tick that would grow the snake past it is not taken.
MaxLen == 2

(***************************************************************************)
(* Values.                                                                 *)
(***************************************************************************)
Directions == {"UP", "DOWN", "LEFT", "RIGHT"}

Cells == [x : 0 .. GRID_SIZE - 1, y : 0 .. GRID_SIZE - 1]

\* getItem of an absent key returns null: a value that is no string (strings are
\* sequences of one-character strings).
NoItem == << "null" >>

\* NaN, the one number of the program that is not an integer >= 0.
NaN == 0 - 1

DigitChars == <<"0", "1", "2", "3", "4", "5", "6", "7", "8", "9">>

\* Number.prototype.toString of a non-negative integer: its decimal digits.
RECURSIVE toString(_)
toString(n) ==
    IF n < 10 THEN << DigitChars[n + 1] >>
    ELSE toString(n \div 10) \o << DigitChars[(n % 10) + 1] >>

DigitValue(c) == CHOOSE d \in 0 .. 9 : DigitChars[d + 1] = c

IsDigit(c) == \E d \in 0 .. 9 : DigitChars[d + 1] = c

\* The value of the longest prefix of digits of s, given the value acc of the
\* digits already read.
RECURSIVE ParseDigits(_, _)
ParseDigits(s, acc) ==
    IF s = << >> \/ ~IsDigit(Head(s)) THEN acc
    ELSE ParseDigits(Tail(s), 10 * acc + DigitValue(Head(s)))

\* parseInt(s, 10) of a string without sign or leading blanks.
parseInt(s) ==
    IF s = << >> \/ ~IsDigit(Head(s)) THEN NaN ELSE ParseDigits(s, 0)

\* a > b of JavaScript numbers: false when either is NaN.
Greater(a, b) == a # NaN /\ b # NaN /\ a > b

\* The cells the model draws Math.random from: the start cell and three of its
\* neighbours (a bound of the model: the program draws from the whole grid).
RandomCells ==
    {[x |-> 10, y |-> 10], [x |-> 11, y |-> 10], [x |-> 10, y |-> 11], [x |-> 9, y |-> 10]}

\* What a previous session may have left in localStorage (a bound of the model):
\* nothing, or the score of one food item.
InitialStorage == {NoItem, toString(10)}

OnSnake(snake, c) == \E i \in 1 .. Len(snake) : snake[i].x = c.x /\ snake[i].y = c.y

(***************************************************************************)
(* The state of the spec's state machine, read off the three flags.        *)
(***************************************************************************)
PhaseOf(gs, playing) ==
    IF gs.gameOver THEN "Over"
    ELSE IF ~playing THEN "Idle"
    ELSE IF gs.isPaused THEN "Paused"
    ELSE "Running"

Phase == PhaseOf(gameState, isPlaying)

\* The values a render hands to the closures it creates.
ViewOf(gs, hs, playing) ==
    [isPlaying |-> playing, gameOver |-> gs.gameOver, isPaused |-> gs.isPaused,
     direction |-> gs.direction, highScore |-> hs]

(***************************************************************************)
(* generateFood: the cells the rejection loop can return for this snake.   *)
(***************************************************************************)
\* Mutant: the loop returns its first draw, on the snake or not.
generateFoodFirstDraw(snake) == RandomCells

generateFood(snake) == {c \in RandomCells : ~OnSnake(snake, c)}

(***************************************************************************)
(* moveSnake, the interval callback.                                       *)
(***************************************************************************)
\* Mutant: the y axis upside down.
MoveHeadYUp(head, direction) ==
    CASE direction = "UP" -> [head EXCEPT !.y = @ + 1]
      [] direction = "DOWN" -> [head EXCEPT !.y = @ - 1]
      [] direction = "LEFT" -> [head EXCEPT !.x = @ - 1]
      [] direction = "RIGHT" -> [head EXCEPT !.x = @ + 1]
      [] OTHER -> head

MoveHead(head, direction) ==
    CASE direction = "UP" -> [head EXCEPT !.y = @ - 1]
      [] direction = "DOWN" -> [head EXCEPT !.y = @ + 1]
      [] direction = "LEFT" -> [head EXCEPT !.x = @ - 1]
      [] direction = "RIGHT" -> [head EXCEPT !.x = @ + 1]
      [] OTHER -> head

\* Mutant: the far walls one cell too far out.
WallCollisionOffByOne(head) ==
    head.x < 0 \/ head.x > GRID_SIZE \/ head.y < 0 \/ head.y > GRID_SIZE

WallCollision(head) ==
    head.x < 0 \/ head.x >= GRID_SIZE \/ head.y < 0 \/ head.y >= GRID_SIZE

\* Mutant: the tail cell, about to be vacated, does not count.
SelfCollisionWithoutTail(snake, head) == OnSnake(SubSeq(snake, 1, Len(snake) - 1), head)

SelfCollision(snake, head) == OnSnake(snake, head)

FoodCollision(head, food) == head.x = food.x /\ head.y = food.y

\* Mutant: the tail is not removed.
PopNothing(s) == s

\* newSnake.pop()
Pop(s) == SubSeq(s, 1, Len(s) - 1)

\* What the updater does with prevState: "noop", "wall", "self", "eat" or "move".
TickOutcome(prev) ==
    IF prev.gameOver \/ prev.isPaused THEN "noop"
    ELSE LET head == MoveHead(prev.snake[1], prev.direction)
         IN  IF WallCollision(head) THEN "wall"
             ELSE IF SelfCollision(prev.snake, head) THEN "self"
             ELSE IF FoodCollision(head, prev.food) THEN "eat"
             ELSE "move"

\* The state the updater returns, newFood being what generateFood returned.
TickState(prev, newFood) ==
    LET head == MoveHead(prev.snake[1], prev.direction)
        newSnake == <<head>> \o prev.snake
        out == TickOutcome(prev)
    IN  CASE out = "noop" -> prev
          [] out \in {"wall", "self"} -> [prev EXCEPT !.gameOver = TRUE]
          [] out = "eat" ->
                [prev EXCEPT !.snake = newSnake, !.food = newFood, !.score = @ + 10]
          [] OTHER -> [prev EXCEPT !.snake = Pop(newSnake)]

\* The food cells the updater can end with.
TickFoods(prev) ==
    IF TickOutcome(prev) = "eat"
    THEN generateFood(<<MoveHead(prev.snake[1], prev.direction)>> \o prev.snake)
    ELSE {prev.food}

\* Mutant: a score equal to the high score counts as a new high score.
NewHighScoreOrEqual(newScore, closureHighScore) ==
    Greater(newScore, closureHighScore) \/ newScore = closureHighScore

\* newScore > highScore, with the highScore the callback's closure holds.
NewHighScore(newScore, closureHighScore) == Greater(newScore, closureHighScore)

\* The toast the updater raises.
TickToast(prev, closureHighScore) ==
    LET out == TickOutcome(prev)
    IN  CASE out \in {"wall", "self"} -> [kind |-> "GameOver", n |-> prev.score]
          [] out = "eat" /\ NewHighScore(prev.score + 10, closureHighScore) ->
                [kind |-> "NewHighScore", n |-> prev.score + 10]
          [] out = "eat" -> [kind |-> "Score", n |-> prev.score + 10]
          [] OTHER -> [kind |-> "None", n |-> 0]

\* The game loop effect arms the interval in exactly these renders.
\* Mutant: the interval is armed before the game is started.
LoopRunsIdle(view) == ~view.gameOver /\ ~view.isPaused

LoopRuns(view) == view.isPlaying /\ ~view.gameOver /\ ~view.isPaused

TimerArmed == LoopRuns(rendered)

\* Mutant: a new high score is set but not written to localStorage.
moveSnakeWithoutSetItem ==
    /\ mounted
    /\ TimerArmed
    /\ LET out == TickOutcome(gameState)
           newScore == gameState.score + 10
       IN  /\ out = "eat" => Len(gameState.snake) < MaxLen
           /\ \E newFood \in TickFoods(gameState) :
                 gameState' = TickState(gameState, newFood)
           /\ IF out = "eat" /\ NewHighScore(newScore, rendered.highScore)
              THEN highScore' = newScore /\ storage' = storage
              ELSE UNCHANGED <<highScore, storage>>
           /\ ev' = [op |-> "tick", from |-> Phase, out |-> out,
                     toast |-> TickToast(gameState, rendered.highScore)]
    /\ UNCHANGED <<isPlaying, mounted, rendered, foodCall>>

\* The interval callback: setGameState(prevState => ...) and what the updater calls.
moveSnake ==
    /\ mounted
    /\ TimerArmed
    /\ LET out == TickOutcome(gameState)
           newScore == gameState.score + 10
       IN  /\ out = "eat" => Len(gameState.snake) < MaxLen
           /\ \E newFood \in TickFoods(gameState) :
                 gameState' = TickState(gameState, newFood)
           /\ IF out = "eat" /\ NewHighScore(newScore, rendered.highScore)
              THEN highScore' = newScore /\ storage' = toString(newScore)
              ELSE UNCHANGED <<highScore, storage>>
           /\ ev' = [op |-> "tick", from |-> Phase, out |-> out,
                     toast |-> TickToast(gameState, rendered.highScore)]
    /\ UNCHANGED <<isPlaying, mounted, rendered, foodCall>>

(***************************************************************************)
(* A render of a timer-made update, and the effects that follow it.        *)
(***************************************************************************)
Render ==
    /\ mounted
    /\ rendered # ViewOf(gameState, highScore, isPlaying)
    /\ rendered' = ViewOf(gameState, highScore, isPlaying)
    /\ ev' = [op |-> "render", from |-> Phase, out |-> "none",
              toast |-> [kind |-> "None", n |-> 0]]
    /\ UNCHANGED <<gameState, highScore, isPlaying, storage, mounted, foodCall>>

(***************************************************************************)
(* The mount effect: load the high score from localStorage.                *)
(***************************************************************************)
LoadedHighScore(saved, hs) ==
    IF saved # NoItem /\ saved # << >> THEN parseInt(saved) ELSE hs

LoadHighScore ==
    /\ ~mounted
    /\ mounted' = TRUE
    /\ highScore' = LoadedHighScore(storage, highScore)
    /\ rendered' = ViewOf(gameState, highScore', isPlaying)
    /\ ev' = [op |-> "load", from |-> Phase, out |-> "none",
              toast |-> [kind |-> "None", n |-> 0]]
    /\ UNCHANGED <<gameState, isPlaying, storage, foodCall>>

(***************************************************************************)
(* handleKeyPress, the keydown listener, and togglePause.                  *)
(***************************************************************************)
\* The keys the model presses (a bound of the model): the arrows, two of the
\* letters, the pause key and a key the switch does not name.
Keys == {"ArrowUp", "ArrowDown", "ArrowLeft", "ArrowRight", "w", "S", " ", "Enter"}

Opposite(direction) ==
    CASE direction = "UP" -> "DOWN"
      [] direction = "DOWN" -> "UP"
      [] direction = "LEFT" -> "RIGHT"
      [] direction = "RIGHT" -> "LEFT"
      [] OTHER -> "NONE"

\* The heading a key asks for ("NONE" for the other keys).
KeyHeading(key) ==
    CASE key \in {"ArrowUp", "w", "W"} -> "UP"
      [] key \in {"ArrowDown", "s", "S"} -> "DOWN"
      [] key \in {"ArrowLeft", "a", "A"} -> "LEFT"
      [] key \in {"ArrowRight", "d", "D"} -> "RIGHT"
      [] OTHER -> "NONE"

\* Mutant: the switch without its checks of the current heading.
NewDirectionUnchecked(direction, key) ==
    IF KeyHeading(key) = "NONE" THEN direction ELSE KeyHeading(key)

\* The switch on event.key: newDirection for the heading the closure holds.
NewDirection(direction, key) ==
    CASE key \in {"ArrowUp", "w", "W"} -> IF direction # "DOWN" THEN "UP" ELSE direction
      [] key \in {"ArrowDown", "s", "S"} -> IF direction # "UP" THEN "DOWN" ELSE direction
      [] key \in {"ArrowLeft", "a", "A"} -> IF direction # "RIGHT" THEN "LEFT" ELSE direction
      [] key \in {"ArrowRight", "d", "D"} -> IF direction # "LEFT" THEN "RIGHT" ELSE direction
      [] OTHER -> direction

\* The guard shared by handleKeyPress and togglePause, on the closure's values.
Accepts(view) == view.isPlaying /\ ~view.gameOver

\* togglePause, called from a closure of the render `view`.
togglePause(view) ==
    IF Accepts(view)
    THEN /\ gameState' = [gameState EXCEPT !.isPaused = ~@]
         /\ rendered' = ViewOf(gameState', highScore, isPlaying)
         /\ ev' = [op |-> "pause", from |-> Phase, out |-> "toggled",
                   toast |-> [kind |-> IF view.isPaused THEN "Resumed" ELSE "Paused",
                              n |-> 0]]
    ELSE /\ UNCHANGED <<gameState, rendered>>
         /\ ev' = [op |-> "pause", from |-> Phase, out |-> "ignored",
                   toast |-> [kind |-> "None", n |-> 0]]

handleKeyPress(key) ==
    /\ mounted
    /\ IF ~Accepts(rendered)
       THEN /\ UNCHANGED <<gameState, rendered>>
            /\ ev' = [op |-> IF key = " " THEN "pause" ELSE "key", from |-> Phase,
                      out |-> "ignored", toast |-> [kind |-> "None", n |-> 0]]
       ELSE IF key = " "
       THEN togglePause(rendered)
       ELSE LET newDirection == NewDirection(rendered.direction, key)
            IN  IF newDirection # rendered.direction
                THEN /\ gameState' = [gameState EXCEPT !.direction = newDirection]
                     /\ rendered' = ViewOf(gameState', highScore, isPlaying)
                     /\ ev' = [op |-> "key", from |-> Phase, out |-> "turned",
                               toast |-> [kind |-> "None", n |-> 0]]
                ELSE IF KeyHeading(key) = Opposite(rendered.direction)
                THEN /\ UNCHANGED <<gameState, rendered>>
                     /\ ev' = [op |-> "key", from |-> Phase, out |-> "reversal",
                               toast |-> [kind |-> "None", n |-> 0]]
                ELSE UNCHANGED <<gameState, rendered, ev>>
    /\ UNCHANGED <<highScore, isPlaying, storage, mounted, foodCall>>

(***************************************************************************)
(* The buttons.  Start is rendered while !isPlaying; otherwise the pause   *)
(* button is, disabled while gameOver; Reset always.                       *)
(***************************************************************************)
\* {!isPlaying ? <Start Game> : <Pause/Resume disabled={gameOver}>}
\* Mutant: the start button rendered in every state.
StartShownAlways(view) == TRUE

StartShown(view) == ~view.isPlaying

PauseEnabled(view) == view.isPlaying /\ ~view.gameOver

startGame ==
    /\ mounted
    /\ StartShown(rendered)
    /\ \E food \in generateFood(INITIAL_SNAKE) :
          gameState' = [snake |-> INITIAL_SNAKE, food |-> food, direction |-> "RIGHT",
                        score |-> 0, gameOver |-> FALSE, isPaused |-> FALSE]
    /\ isPlaying' = TRUE
    /\ rendered' = ViewOf(gameState', highScore, isPlaying')
    /\ ev' = [op |-> "start", from |-> Phase, out |-> "none",
              toast |-> [kind |-> "Started", n |-> 0]]
    /\ UNCHANGED <<highScore, storage, mounted, foodCall>>

PauseButton ==
    /\ mounted
    /\ PauseEnabled(rendered)
    /\ togglePause(rendered)
    /\ UNCHANGED <<highScore, isPlaying, storage, mounted, foodCall>>

\* Mutant: reset without setIsPlaying(false).
resetGameStillPlaying ==
    /\ mounted
    /\ gameState' = [snake |-> INITIAL_SNAKE, food |-> INITIAL_FOOD, direction |-> "RIGHT",
                     score |-> 0, gameOver |-> FALSE, isPaused |-> FALSE]
    /\ rendered' = ViewOf(gameState', highScore, isPlaying)
    /\ ev' = [op |-> "reset", from |-> Phase, out |-> "none",
              toast |-> [kind |-> "Reset", n |-> 0]]
    /\ UNCHANGED <<highScore, isPlaying, storage, mounted, foodCall>>

resetGame ==
    /\ mounted
    /\ isPlaying' = FALSE
    /\ gameState' = [snake |-> INITIAL_SNAKE, food |-> INITIAL_FOOD, direction |-> "RIGHT",
                     score |-> 0, gameOver |-> FALSE, isPaused |-> FALSE]
    /\ rendered' = ViewOf(gameState', highScore, isPlaying')
    /\ ev' = [op |-> "reset", from |-> Phase, out |-> "none",
              toast |-> [kind |-> "Reset", n |-> 0]]
    /\ UNCHANGED <<highScore, storage, mounted, foodCall>>

(***************************************************************************)
(* The component after construction, and its steps.                        *)
(***************************************************************************)
Constructed ==
    /\ gameState = [snake |-> INITIAL_SNAKE, food |-> INITIAL_FOOD, direction |-> "RIGHT",
                    score |-> 0, gameOver |-> FALSE, isPaused |-> FALSE]
    /\ highScore = 0
    /\ isPlaying = FALSE
    /\ storage \in InitialStorage
    /\ mounted = FALSE
    /\ rendered = ViewOf(gameState, highScore, isPlaying)
    /\ ev = [op |-> "init", from |-> "Idle", out |-> "none",
             toast |-> [kind |-> "None", n |-> 0]]

\* In the game below a call of generateFood is one step of its caller.
NoCall == [pc |-> "none", snake |-> << >>, newFood |-> INITIAL_FOOD]

Init == Constructed /\ foodCall = NoCall

Next ==
    \/ LoadHighScore
    \/ startGame
    \/ resetGame
    \/ PauseButton
    \/ \E key \in Keys : handleKeyPress(key)
    \/ moveSnake
    \/ Render

Spec == Init /\ [][Next]_vars

(***************************************************************************)
(* generateFood followed draw by draw.  The snakes it is called with here  *)
(* come from the game in which the player starts, turns UP and then keeps  *)
(* to a closed tour of the whole grid while every food cell spawns on the  *)
(* next cell of the tour: each tick eats, the tail stays on (10,10) and    *)
(* the head never meets a wall or the body, so the snake grows by one cell *)
(* per tick, up to the tick that eats the last free cell.                  *)
(***************************************************************************)
\* The tour: along row 0 from (0,0) to (19,0), then down column 19, up column 18,
\* and so on over rows 1..19, ending on (0,1) next to (0,0).
TourCell(i) ==
    IF i < GRID_SIZE
    THEN [x |-> i, y |-> 0]
    ELSE LET j == i - GRID_SIZE
             col == GRID_SIZE - 1 - (j \div (GRID_SIZE - 1))
             k == j % (GRID_SIZE - 1)
         IN  [x |-> col, y |-> IF col % 2 = 1 THEN 1 + k ELSE GRID_SIZE - 1 - k]

TourStart == CHOOSE i \in 0 .. GRID_SIZE * GRID_SIZE - 1 : TourCell(i) = INITIAL_SNAKE[1]

\* The snake after len - 1 such ticks, head first.
TourSnake(len) ==
    [n \in 1 .. len |-> TourCell((TourStart + len - n) % (GRID_SIZE * GRID_SIZE))]

\* The calls followed: by startGame (one cell), by the first ticks, and by the
\* last two ticks of that game.
CalledWith ==
    {TourSnake(len) : len \in {1, 2, 3, GRID_SIZE * GRID_SIZE - 1, GRID_SIZE * GRID_SIZE}}

\* Line 54-57: one draw, floor(random * GRID_SIZE) for each coordinate.
DrawFood ==
    /\ foodCall.pc = "draw"
    /\ \E c \in Cells : foodCall' = [foodCall EXCEPT !.pc = "test", !.newFood = c]
    /\ UNCHANGED <<gameState, highScore, isPlaying, storage, mounted, rendered, ev>>

\* Line 58: draw again while the cell is on the snake, else return it.
TestFood ==
    /\ foodCall.pc = "test"
    /\ foodCall' = [foodCall EXCEPT
                      !.pc = IF OnSnake(foodCall.snake, foodCall.newFood)
                             THEN "draw" ELSE "return"]
    /\ UNCHANGED <<gameState, highScore, isPlaying, storage, mounted, rendered, ev>>

FoodInit ==
    /\ Constructed
    /\ \E snake \in CalledWith :
          foodCall = [pc |-> "draw", snake |-> snake, newFood |-> INITIAL_FOOD]

FoodNext == DrawFood \/ TestFood

FoodSpec == FoodInit /\ [][FoodNext]_vars

(***************************************************************************)
(* Properties.  A step is named by the operation it records in ev'.        *)
(***************************************************************************)
Snake == gameState.snake

SnakeHead == gameState.snake[1]

\* The cell a tick moves the head to, written out heading by heading.
Ahead ==
    CASE gameState.direction = "UP" -> [x |-> SnakeHead.x, y |-> SnakeHead.y - 1]
      [] gameState.direction = "DOWN" -> [x |-> SnakeHead.x, y |-> SnakeHead.y + 1]
      [] gameState.direction = "LEFT" -> [x |-> SnakeHead.x - 1, y |-> SnakeHead.y]
      [] gameState.direction = "RIGHT" -> [x |-> SnakeHead.x + 1, y |-> SnakeHead.y]

InGrid(c) == c.x >= 0 /\ c.x < GRID_SIZE /\ c.y >= 0 /\ c.y < GRID_SIZE

AheadOnSnake == \E i \in 1 .. Len(Snake) : Snake[i] = Ahead

RunningTick == Phase = "Running" /\ ev'.op = "tick"

C2_TickOutsideRunningIsNoop ==
    [][(ev'.op = "tick" /\ Phase # "Running")
          => UNCHANGED <<gameState, highScore, isPlaying, storage>>]_vars

\* The interval has fired after the game was over.
C2_Witness == ev.op = "tick" /\ ev.from = "Over" /\ Phase = "Over"

\* C3: a key that asks for a heading, pressed in a state that is not Running,
\* leaves the heading and the rest of gameState unchanged.
C3_SetHeadingOutsideRunningIsNoop ==
    [][(ev'.op = "key" /\ Phase # "Running") => gameState' = gameState]_vars

\* C4: a tick never moves the head in the direction opposite to that of the
\* previous tick: the cell it heads for is not the cell the head came from.
C4_NoInstantReversal ==
    [][(RunningTick /\ Len(Snake) >= 2) => Ahead # Snake[2]]_vars

\* C5: in Running a key never turns the heading into its exact opposite, and
\* a key asking for the opposite heading changes nothing of the game.
C5_ReversalRejected ==
    [][(ev'.op = "key" /\ Phase = "Running")
          => /\ gameState'.direction # Opposite(gameState.direction)
             /\ ev'.out = "reversal"
                   => UNCHANGED <<gameState, highScore, isPlaying, storage>>]_vars

\* A key asking for the opposite heading was pressed in Running.
C5_Witness == ev.op = "key" /\ ev.out = "reversal" /\ ev.from = "Running"

\* C6: a Running tick whose new head is the food cell puts the new head in
\* front of the whole previous snake, adds 10 to the score, stays Running and
\* spawns food on a cell that is not on the grown snake.
C6_EatGrows ==
    [][(RunningTick /\ Ahead = gameState.food)
          => /\ gameState'.snake = <<Ahead>> \o Snake
             /\ Len(gameState'.snake) = Len(Snake) + 1
             /\ gameState'.score = gameState.score + 10
             /\ Phase' = "Running"
             /\ \A i \in 1 .. Len(gameState'.snake) :
                   gameState'.snake[i] # gameState'.food]_vars

\* A tick has eaten food.
C6_Witness == ev.op = "tick" /\ ev.out = "eat" /\ Len(Snake) = 2

\* C7: a Running tick with no collision and no food ahead keeps the length,
\* moves the head one cell along the heading, drops the last cell and leaves
\* food, score and heading alone.
C7_PlainMove ==
    [][(RunningTick /\ InGrid(Ahead) /\ ~AheadOnSnake /\ Ahead # gameState.food)
          => /\ Len(gameState'.snake) = Len(Snake)
             /\ gameState'.snake[1] = Ahead
             /\ \A i \in 2 .. Len(Snake) : gameState'.snake[i] = Snake[i - 1]
             /\ gameState'.food = gameState.food
             /\ gameState'.score = gameState.score
             /\ gameState'.direction = gameState.direction]_vars

\* A tick has moved a two-cell snake upwards.
C7_Witness ==
    /\ ev.op = "tick"
    /\ ev.out = "move"
    /\ Len(Snake) = 2
    /\ gameState.direction = "UP"
    /\ Snake[2].y = SnakeHead.y + 1

\* C8: a Running tick whose new head is off the grid ends the game with
\* snake, food, heading and score as they were, and a tick after the game is
\* over changes nothing.
C8_WallEndsGame ==
    [][/\ (RunningTick /\ ~InGrid(Ahead))
            => /\ Phase' = "Over"
               /\ gameState' = [gameState EXCEPT !.gameOver = TRUE]
       /\ (ev'.op = "tick" /\ gameState.gameOver) => gameState' = gameState]_vars

\* The interval has fired again after the snake ran into a wall.
C8_Witness ==
    /\ ev.op = "tick"
    /\ ev.from = "Over"
    /\ gameState.gameOver
    /\ ~InGrid(Ahead)

\* C9: a Running tick whose new head is on a cell of the snake as it is before
\* the move, the tail cell included, ends the game and leaves snake, food and
\* score as they were.
C9_SelfCollisionEndsGame ==
    [][(RunningTick /\ InGrid(Ahead) /\ AheadOnSnake)
          => /\ Phase' = "Over"
             /\ gameState'.snake = Snake
             /\ gameState'.food = gameState.food
             /\ gameState'.score = gameState.score]_vars

\* A tick has ended the game on the tail cell of the snake.
C9_Witness ==
    /\ ev.op = "tick"
    /\ ev.out = "self"
    /\ gameState.gameOver
    /\ Ahead = Snake[Len(Snake)]

\* C10: Over is entered only from Running; no tick, key or pause leaves it,
\* it is left only by reset, to Idle; and Running is entered from Idle only by
\* start, and never from Over.
C10_OverIsTerminal ==
    [][/\ (Phase' = "Over" /\ Phase # "Over") => Phase = "Running"
       /\ (Phase = "Over" /\ ev'.op \in {"tick", "key", "pause"}) => Phase' = "Over"
       /\ (Phase = "Over" /\ Phase' # "Over") => (ev'.op = "reset" /\ Phase' = "Idle")
       /\ (Phase \in {"Idle", "Over"} /\ Phase' = "Running")
             => (ev'.op = "start" /\ Phase = "Idle")]_vars

\* A key or the pause key was pressed after the game was over, and it is still over.
C10_Witness ==
    /\ ev.op \in {"key", "pause"}
    /\ ev.from = "Over"
    /\ Phase = "Over"

\* C11: reset, from whatever state, leaves the game Idle with the snake on
\* (10,10) alone, heading RIGHT, score 0, and neither over nor paused.
C11_ResetYieldsIdleDefault ==
    [][ev'.op = "reset"
          => /\ Phase' = "Idle"
             /\ ~isPlaying'
             /\ gameState'.snake = << [x |-> 10, y |-> 10] >>
             /\ gameState'.direction = "RIGHT"
             /\ gameState'.score = 0
             /\ ~gameState'.gameOver
             /\ ~gameState'.isPaused]_vars

\* The game was reset after it was over, its snake away from the start cell.
C11_Witness == ev.op = "reset" /\ ev.from = "Over" /\ Phase = "Idle"

\* C12: start leaves score 0, the snake on (10,10) alone, heading RIGHT,
\* neither over nor paused, food on a cell off the snake, and the game Running.
C12_StartYieldsRunningDefault ==
    [][ev'.op = "start"
          => /\ Phase' = "Running"
             /\ gameState'.score = 0
             /\ gameState'.snake = << [x |-> 10, y |-> 10] >>
             /\ gameState'.direction = "RIGHT"
             /\ ~gameState'.gameOver
             /\ ~gameState'.isPaused
             /\ InGrid(gameState'.food)
             /\ gameState'.food # [x |-> 10, y |-> 10]]_vars

\* The game was started, with food next to the snake.
C12_Witness ==
    /\ ev.op = "start"
    /\ Phase = "Running"
    /\ gameState.food = [x |-> 11, y |-> 10]

\* C13: the pause key or button changes nothing in Idle and Over; in Running
\* it pauses and in Paused it resumes, and in both it leaves snake, food,
\* heading and score alone.
C13_TogglePause ==
    [][ev'.op = "pause"
          => /\ Phase \in {"Idle", "Over"} => gameState' = gameState
             /\ Phase = "Running" => Phase' = "Paused"
             /\ Phase = "Paused" => Phase' = "Running"
             /\ gameState'.snake = gameState.snake
             /\ gameState'.food = gameState.food
             /\ gameState'.direction = gameState.direction
             /\ gameState'.score = gameState.score]_vars

\* C14: the interval is armed only while the game is Running: once the state
\* is Paused, Over or Idle it has been cleared, so that no tick fires there.
C14_TimerArmedOnlyWhileRunning == TimerArmed => Phase = "Running"

\* C15: whatever snake the game calls it with, the snake just grown included,
\* the rejection loop of generateFood can end, and the cell it returns is a cell
\* of the grid that is not on the snake.
C15_FoodSpawnTerminatesFree ==
    /\ foodCall.pc = "return"
          => InGrid(foodCall.newFood) /\ ~OnSnake(foodCall.snake, foodCall.newFood)
    /\ foodCall.pc \in {"draw", "test"}
          => \E c \in Cells : ~OnSnake(foodCall.snake, c)

\* The scenario of C16: Running on the single cell (10,10), heading RIGHT, with
\* the food on (11,10), and the interval fires.
C16_Scenario ==
    /\ Phase = "Running"
    /\ gameState.snake = << [x |-> 10, y |-> 10] >>
    /\ gameState.direction = "RIGHT"
    /\ gameState.food = [x |-> 11, y |-> 10]
    /\ ev'.op = "tick"

\* C16 as stated: the tick of the scenario leaves the snake on (11,10) alone,
\* with score 10, a new food cell other than (11,10), and the game not over.
C16_ScenarioAsStated ==
    [][C16_Scenario
          => /\ gameState'.snake = << [x |-> 11, y |-> 10] >>
             /\ gameState'.score = 10
             /\ gameState'.food # [x |-> 11, y |-> 10]
             /\ ~gameState'.gameOver]_vars

\* C16, amended: the tick of the scenario leaves the snake on (11,10) followed
\* by (10,10), with score 10, a new food cell on neither of the two, and the
\* game not over.
C16_ScenarioGrows ==
    [][C16_Scenario
          => /\ gameState'.snake = << [x |-> 11, y |-> 10], [x |-> 10, y |-> 10] >>
             /\ gameState'.score = 10
             /\ InGrid(gameState'.food)
             /\ gameState'.food # [x |-> 11, y |-> 10]
             /\ gameState'.food # [x |-> 10, y |-> 10]
             /\ Phase' = "Running"]_vars

\* The scenario has been played: the tick ate from (10,10) and the snake has two cells.
C16_Witness ==
    /\ ev.op = "tick" /\ ev.out = "eat" /\ ev.from = "Running"
    /\ gameState.snake = << [x |-> 11, y |-> 10], [x |-> 10, y |-> 10] >>
    /\ gameState.score = 10
    /\ gameState.direction = "RIGHT"

\* C17: a tick that eats raises the new-high-score toast, writes the new score
\* to localStorage and sets highScore to it exactly when the score after the
\* increment exceeds the high score; otherwise it raises only the score toast
\* and leaves highScore and localStorage as they were.
C17_NewHighScoreExactlyWhenExceeded ==
    [][(RunningTick /\ Ahead = gameState.food)
          => IF gameState.score + 10 > highScore
             THEN /\ ev'.toast = [kind |-> "NewHighScore", n |-> gameState.score + 10]
                  /\ highScore' = gameState.score + 10
                  /\ storage' = toString(gameState.score + 10)
             ELSE /\ ev'.toast = [kind |-> "Score", n |-> gameState.score + 10]
                  /\ highScore' = highScore
                  /\ storage' = storage]_vars

\* A tick has eaten with a score that only equals the high score read at startup.
C17_Witness ==
    /\ ev.op = "tick" /\ ev.out = "eat"
    /\ ev.toast = [kind |-> "Score", n |-> 10]
    /\ highScore = 10

\* C18: in every state the food is a cell of the grid and lies on no cell of
\* the snake: while Idle (also after a reset), Running, Paused and Over.
C18_FoodInGridOffSnake ==
    /\ gameState.food.x \in 0 .. GRID_SIZE - 1
    /\ gameState.food.y \in 0 .. GRID_SIZE - 1
    /\ \A i \in 1 .. Len(Snake) : Snake[i] # gameState.food

\* The game is over with a snake of two cells, the food next to its head.
C18_Witness ==
    /\ Phase = "Over"
    /\ Len(Snake) = 2
    /\ gameState.food = Ahead

\* C19: in every state the score is ten times the number of cells the snake
\* has gained: score = 10 * (snake length - 1).
C19_ScoreIsTenPerCell == gameState.score = 10 * (Len(Snake) - 1)

\* The snake has eaten once and then made a plain move.
C19_Witness ==
    /\ ev.op = "tick" /\ ev.out = "move"
    /\ Len(Snake) = 2
    /\ gameState.score = 10

\* What localStorage holds for the high score, as the mount effect reads it.
Persisted == IF storage = NoItem THEN 0 ELSE parseInt(storage)

\* C20: after every operation highScore is at least the current score, no
\* operation lowers it (start and reset keep it), and once the mount effect
\* has read localStorage it equals the value localStorage holds.
C20_HighScoreMirrorsPersisted ==
    [][/\ highScore' >= gameState'.score
       /\ highScore' >= highScore
       /\ ev'.op \in {"start", "reset"} => highScore' = highScore
       /\ mounted' => highScore' = Persisted']_vars

\* A new high score has just been set and written.
C20_Witness ==
    /\ mounted
    /\ ev.op = "tick" /\ ev.toast = [kind |-> "NewHighScore", n |-> 10]
    /\ highScore = 10 /\ storage = toString(10) /\ gameState.score = 10

====
